---- MODULE Spec2Model ----
(***************************************************************************)
(* Infimum: poll state machine, amortised incremental Merkle accumulator,  *)
(* process/tally commitment chain and public-input construction.           *)
(*                                                                         *)
(* Digests are symbolic: a field element built from a small integer n is   *)
(* <<"F", n>>, a Poseidon digest of the inputs xs is <<"H", xs>>.  Two     *)
(* digests are equal exactly when they were built from the same inputs in  *)
(* the same order, which is the collision-freeness the design relies on.   *)
(***************************************************************************)
EXTENDS Integers, Sequences, FiniteSets, TLC

VARIABLES
    now,        \* frame_system block number
    coordinator,\* the Coordinators entry of the poll's coordinator
    poll,       \* the Polls entry (None before create_poll)
    registered, \* the registration leaves the poll accepted, in order
    participating, \* PollsParticipatingIn: the accounts registered in the poll
    poll_ids,   \* CoordinatorPollIds of the coordinator, in order of creation
    archive,    \* the Polls entries of the coordinator's earlier polls
    max_polls,  \* the runtime's MaxCoordinatorPolls
    last,       \* outcome of the last extrinsic: name, result, per-batch log
    tree,       \* a PollStateTree exercised on its own
    inserted,   \* the leaves handed to insert so far, in order
    treeOp,     \* the last tree operation and its result
    call,       \* arguments and result of a get_proof_public_inputs call
    hasher,     \* a Poseidon hasher exercised on its own: the result of new_circom
    hashOp      \* the last hasher operation, its arguments and its result

vars == <<now, coordinator, poll, registered, participating, poll_ids, archive,
          max_polls, last, tree, inserted, treeOp, call, hasher, hashOp>>

coordVars == <<poll_ids, archive, max_polls>>
pollVars == <<now, coordinator, poll, registered, participating, coordVars, last>>
treeVars == <<tree, inserted, treeOp>>
hashVars == <<hasher, hashOp>>

----------------------------------------------------------------------------
(* Bounds of the model.                                                    *)

MaxBinaryDepth == 3     \* deepest arity-2 tree exercised on its own
MaxQuinaryDepth == 1    \* deepest arity-5 tree exercised on its own

----------------------------------------------------------------------------
(* Values.                                                                 *)

None == <<"None">>
Some(v) == <<"Some", v>>
IsSome(o) == o[1] = "Some"
Unwrap(o) == o[2]

Fr(n) == <<"F", n>>

\* [0u8; 32]
ZeroBytes == Fr(0)

MAX_X5_LEN == 13

Min(a, b) == IF a < b THEN a ELSE b

RECURSIVE Pow(_, _)
Pow(b, e) == IF e = 0 THEN 1 ELSE b * Pow(b, e - 1)

Last(s) == s[Len(s)]

----------------------------------------------------------------------------
(* Poseidon, Circom variant: width = nr_inputs + 1, domain tag 0.          *)

HashError == <<"HashError">>

\* Poseidon::new_circom(nr_inputs) followed by hash(inputs)
PoseidonCircom(inputs) ==
    IF Len(inputs) + 1 > MAX_X5_LEN \/ Len(inputs) + 1 < 2
    THEN HashError
    ELSE <<"H", inputs>>

----------------------------------------------------------------------------
(* The zero table: Z[0] is the arity's zero leaf, Z[d] = H(Z[d-1] x arity).*)

RECURSIVE get_merkle_zeroes(_, _)
get_merkle_zeroes(arity, d) ==
    IF d = 0 THEN <<"Z", arity>>
    ELSE PoseidonCircom([i \in 1..arity |-> get_merkle_zeroes(arity, d - 1)])

----------------------------------------------------------------------------
(* PollStateTree: the amortised incremental Merkle tree.                   *)

\* variant: the sentinel entry is counted as a leaf
PollStateTree_new_counted(arity, full_depth, zero_hash) ==
    [ arity      |-> arity,
      full_depth |-> full_depth,
      depth      |-> 0,
      count      |-> IF IsSome(zero_hash) THEN 1 ELSE 0,
      hashes     |-> IF IsSome(zero_hash) THEN <<Unwrap(zero_hash)>> ELSE <<>>,
      root       |-> None ]

PollStateTree_new(arity, full_depth, zero_hash) ==
    [ arity      |-> arity,
      full_depth |-> full_depth,
      depth      |-> 0,
      count      |-> 0,
      hashes     |-> IF IsSome(zero_hash) THEN <<Unwrap(zero_hash)>> ELSE <<>>,
      root       |-> None ]

\* AmortizedIncrementalMerkleTree::hash
hash(inputs) == PoseidonCircom(inputs)

Ok(v) == [err |-> "Ok", val |-> v]
Err(e, v) == [err |-> e, val |-> v]

\* variant: the new leaf is put in front of the pending subtree roots
push_leaf_front(hashes, leaf) == <<<<0, leaf>>>> \o hashes

\* self.hashes.push((0, leaf))
push_leaf(hashes, leaf) == Append(hashes, <<0, leaf>>)

\* variant: a run of equal depths is never taken for a full subtree
subtree_is_full_never(subtree, depth) ==
    \A i \in 1..Len(subtree) : subtree[i][1] = depth + 1

\* subtree.iter().all(|&(d, _)| d == depth)
subtree_is_full(subtree, depth) ==
    \A i \in 1..Len(subtree) : subtree[i][1] = depth

\* the compaction loop of insert
RECURSIVE InsertLoop(_)
InsertLoop(t) ==
    LET size == Len(t.hashes)
        arity == t.arity
    IN  IF size < arity THEN Ok(t)
        ELSE
          LET subtree == SubSeq(t.hashes, size - arity + 1, size)
              depth == subtree[1][1]
          IN  IF subtree_is_full(subtree, depth)
              THEN
                LET leaves == [i \in 1..arity |-> subtree[i][2]]
                    h == hash(leaves)
                IN  IF h = HashError THEN Err("HashFailed", t)
                    ELSE InsertLoop(
                           [t EXCEPT
                              !.hashes = Append(SubSeq(t.hashes, 1, size - arity),
                                                <<depth + 1, h>>),
                              !.depth = IF t.depth < depth + 1 THEN depth + 1
                                        ELSE t.depth])
              ELSE Ok(t)

\* variant: the root is set as soon as a single entry is left, as in merge
InsertSetRoot_single_entry(t) ==
    IF Len(t.hashes) = 1
    THEN [t EXCEPT !.root = Some(t.hashes[1][2]), !.hashes = <<>>]
    ELSE t

\* if self.hashes.len() == 1 && self.hashes[0].0 == self.full_depth
InsertSetRoot(t) ==
    IF Len(t.hashes) = 1 /\ t.hashes[1][1] = t.full_depth
    THEN [t EXCEPT !.root = Some(t.hashes[1][2]), !.hashes = <<>>]
    ELSE t

\* variant: the root is not looked at before the leaf is pushed
insert_into_merged(self, leaf) ==
    LET pushed == [self EXCEPT !.count = self.count + 1,
                               !.hashes = push_leaf(self.hashes, leaf)]
        looped == InsertLoop(pushed)
    IN  IF looped.err # "Ok" THEN Err(looped.err, self)
        ELSE Ok(InsertSetRoot(looped.val))

insert(self, leaf) ==
    IF self.root # None THEN Err("TreeAlreadyFull", self)
    ELSE
      LET pushed == [self EXCEPT !.count = self.count + 1,
                                 !.hashes = push_leaf(self.hashes, leaf)]
          looped == InsertLoop(pushed)
      IN  IF looped.err # "Ok" THEN Err(looped.err, self)
          ELSE Ok(InsertSetRoot(looped.val))

\* the trailing run of entries of hashes that carry the depth of the last one
RECURSIVE TrailingRun(_, _)
TrailingRun(hashes, depth) ==
    IF hashes = <<>> \/ Last(hashes)[1] # depth THEN <<>>
    ELSE Append(TrailingRun(SubSeq(hashes, 1, Len(hashes) - 1), depth),
                Last(hashes)[2])

\* variant: pads every level with the zero leaf
merge_zero_leaf(arity, depth) == get_merkle_zeroes(arity, 0)

\* zeroes[depth]: the zero the merge pads a level with
merge_zero(arity, depth) == get_merkle_zeroes(arity, depth)

RECURSIVE MergeLoop(_, _)
MergeLoop(t, to_depth) ==
    IF t.hashes = <<>> THEN Ok(t)
    ELSE
      LET depth == Last(t.hashes)[1]
      IN  IF Len(t.hashes) = 1 /\ (~to_depth \/ depth = t.full_depth)
          THEN Ok(t)
          ELSE IF Len(t.hashes) = 1 /\ depth > t.full_depth
          \* the loop can no longer break: it pads one level per round until
          \* zeroes[depth] indexes past the end of the table and panics
          THEN Err("Panic", t)
          ELSE
            LET run == TrailingRun(t.hashes, depth)
                size == Len(run)
                zero == merge_zero(t.arity, depth)
                subtree == IF t.arity >= size
                           THEN run \o [i \in 1..(t.arity - size) |-> zero]
                           ELSE run
                h == hash(subtree)
            IN  IF h = HashError THEN Err("HashFailed", t)
                ELSE MergeLoop(
                       [t EXCEPT !.hashes =
                           Append(SubSeq(t.hashes, 1, Len(t.hashes) - size),
                                  <<depth + 1, h>>)],
                       to_depth)

\* variant: a tree without entries is given the root of the all-zero tree
MergeSetRoot_zero_when_empty(t) ==
    IF Len(t.hashes) = 1
    THEN [t EXCEPT !.root = Some(t.hashes[1][2]), !.hashes = <<>>]
    ELSE IF t.hashes = <<>>
    THEN [t EXCEPT !.root = Some(get_merkle_zeroes(t.arity, t.full_depth))]
    ELSE t

\* if self.hashes.len() == 1
MergeSetRoot(t) ==
    IF Len(t.hashes) = 1
    THEN [t EXCEPT !.root = Some(t.hashes[1][2]), !.hashes = <<>>]
    ELSE t

\* variant: the loop runs to full_depth whatever the mode
merge_always_to_depth(self, to_depth) ==
    IF self.root # None THEN Err("TreeAlreadyMerged", self)
    ELSE
      LET looped == MergeLoop(self, TRUE)
      IN  IF looped.err # "Ok" THEN Err(looped.err, self)
          ELSE Ok(MergeSetRoot(looped.val))

merge(self, to_depth) ==
    IF self.root # None THEN Err("TreeAlreadyMerged", self)
    ELSE
      LET looped == MergeLoop(self, to_depth)
      IN  IF looped.err # "Ok" THEN Err(looped.err, self)
          ELSE Ok(MergeSetRoot(looped.val))

----------------------------------------------------------------------------
(* Reference: the root of the full a-ary tree of the given depth over the  *)
(* leaves, right-padded with the zero leaf.                                *)

RECURSIVE ReferenceRoot(_, _, _)
ReferenceRoot(arity, depth, leaves) ==
    IF depth = 0
    THEN IF leaves = <<>> THEN get_merkle_zeroes(arity, 0) ELSE leaves[1]
    ELSE
      LET width == Pow(arity, depth - 1)
          child(i) == SubSeq(leaves,
                             Min((i - 1) * width + 1, Len(leaves) + 1),
                             Min(i * width, Len(leaves)))
      IN  <<"H", [i \in 1..arity |-> ReferenceRoot(arity, depth - 1, child(i))]>>

\* the least d with arity^d >= m
RECURSIVE CeilLog(_, _)
CeilLog(arity, m) ==
    IF m <= 1 THEN 0 ELSE 1 + CeilLog(arity, (m + arity - 1) \div arity)

----------------------------------------------------------------------------
(* Poll, PollState, PollConfiguration and Commitment.                      *)

ARITY_REGISTRATIONS == 2
ARITY_INTERACTIONS == 5

\* EMPTY_BALLOT_ROOTS[i]: the tabulated root of an empty ballot tree
EMPTY_BALLOT_ROOTS(i) == <<"EmptyBallotRoot", i>>

\* variant: the process slot of a new poll starts at proof index 1
PollState_new_advanced(registration_depth, interaction_depth) ==
    [ registrations |-> PollStateTree_new(ARITY_REGISTRATIONS, registration_depth,
                            Some(<<0, get_merkle_zeroes(2, 0)>>)),
      interactions  |-> PollStateTree_new(ARITY_INTERACTIONS, interaction_depth,
                            None),
      commitment    |-> [ process |-> <<1, ZeroBytes>>,
                          tally |-> <<0, ZeroBytes>>,
                          expected_process |-> 0,
                          expected_tally |-> 0 ],
      outcome       |-> None,
      tombstone     |-> FALSE ]

PollState_new(registration_depth, interaction_depth) ==
    [ registrations |-> PollStateTree_new(ARITY_REGISTRATIONS, registration_depth,
                            Some(<<0, get_merkle_zeroes(2, 0)>>)),
      interactions  |-> PollStateTree_new(ARITY_INTERACTIONS, interaction_depth,
                            None),
      commitment    |-> [ process |-> <<0, ZeroBytes>>,
                          tally |-> <<0, ZeroBytes>>,
                          expected_process |-> 0,
                          expected_tally |-> 0 ],
      outcome       |-> None,
      tombstone     |-> FALSE ]

\* Fr::from_be_bytes_mod_order: the big-endian number reduced modulo the
\* field order.  Every byte string of the model encodes a number below the
\* field order (a digest, or a small integer), and on those the reduction
\* returns the number itself.
from_be_bytes_mod_order(bytes) == bytes

\* u8::pow, as the release build computes it
u8_pow(b, e) == Pow(b, e) % 256

get_voting_period_end_late(p) ==
    p.created_at + p.config.signup_period + p.config.voting_period + 1

get_voting_period_end(p) ==
    p.created_at + p.config.signup_period + p.config.voting_period

is_voting_period(p, block) ==
    LET voting_period_start == p.created_at + p.config.signup_period
        voting_period_end == voting_period_start + p.config.voting_period
    IN  block >= voting_period_start /\ block < voting_period_end

is_registration_period_inclusive(p, block) ==
    block >= p.created_at /\ block <= p.created_at + p.config.signup_period

is_registration_period(p, block) ==
    block >= p.created_at /\ block < p.created_at + p.config.signup_period

is_over_at_end(p, block) == block >= get_voting_period_end(p)

is_over(p, block) == block > get_voting_period_end(p)

is_nullified(p) == p.state.tombstone

is_fulfilled_when_expected(p) ==
    p.state.commitment.expected_process > 0 \/ is_nullified(p)

is_fulfilled(p) == IsSome(p.state.outcome) \/ is_nullified(p)

is_merged(p) ==
    IsSome(p.state.registrations.root) /\ IsSome(p.state.interactions.root)

registration_limit_reached_beyond(p) ==
    p.state.registrations.count > p.config.max_registrations

registration_limit_reached(p) ==
    p.state.registrations.count >= p.config.max_registrations

interaction_limit_reached(p) ==
    p.state.interactions.count >= p.config.max_interactions

nullify(p) == [p EXCEPT !.state.tombstone = TRUE]

\* the leaf of a registration: H4(x, y, 1, timestamp)
registration_leaf(public_key, timestamp) ==
    PoseidonCircom(<<from_be_bytes_mod_order(public_key.x),
                     from_be_bytes_mod_order(public_key.y),
                     Fr(1), Fr(timestamp)>>)

register_participant(p, public_key, timestamp) ==
    LET leaf == registration_leaf(public_key, timestamp)
    IN  IF leaf = HashError THEN Err("HashFailed", p)
        ELSE LET r == insert(p.state.registrations, leaf)
             IN  IF r.err # "Ok" THEN Err(r.err, p)
                 ELSE Ok([p EXCEPT !.state.registrations = r.val])

\* variant: the leaf of the interaction goes to the registration tree
consume_interaction_into_registrations(p, public_key, data) ==
    LET left == PoseidonCircom([i \in 1..5 |-> from_be_bytes_mod_order(data[i])])
        right == PoseidonCircom([i \in 1..5 |-> from_be_bytes_mod_order(data[i + 5])])
        leaf == IF left = HashError \/ right = HashError THEN HashError
                ELSE PoseidonCircom(<<left, right,
                                      from_be_bytes_mod_order(public_key.x),
                                      from_be_bytes_mod_order(public_key.y)>>)
    IN  IF leaf = HashError THEN Err("HashFailed", p)
        ELSE LET r == insert(p.state.registrations, leaf)
             IN  IF r.err # "Ok" THEN Err(r.err, p)
                 ELSE Ok([p EXCEPT !.state.registrations = r.val])

consume_interaction(p, public_key, data) ==
    LET left == PoseidonCircom([i \in 1..5 |-> from_be_bytes_mod_order(data[i])])
        right == PoseidonCircom([i \in 1..5 |-> from_be_bytes_mod_order(data[i + 5])])
        leaf == IF left = HashError \/ right = HashError THEN HashError
                ELSE PoseidonCircom(<<left, right,
                                      from_be_bytes_mod_order(public_key.x),
                                      from_be_bytes_mod_order(public_key.y)>>)
    IN  IF leaf = HashError THEN Err("HashFailed", p)
        ELSE LET r == insert(p.state.interactions, leaf)
             IN  IF r.err # "Ok" THEN Err(r.err, p)
                 ELSE Ok([p EXCEPT !.state.interactions = r.val])

\* variant: merges the registrations up to full_depth
merge_registrations_to_depth(p) ==
    LET r == merge(p.state.registrations, TRUE)
    IN  IF r.err # "Ok" THEN Err(r.err, p)
        ELSE IF r.val.root = None THEN Err("MergeFailed", p)
        ELSE
          LET inputs == <<from_be_bytes_mod_order(Unwrap(r.val.root)),
                          from_be_bytes_mod_order(EMPTY_BALLOT_ROOTS(1)),
                          from_be_bytes_mod_order(ZeroBytes)>>
              commitment == PoseidonCircom(inputs)
          IN  IF commitment = HashError THEN Err("HashFailed", p)
              ELSE Ok([p EXCEPT !.state.registrations = r.val,
                                !.state.commitment.process = <<0, commitment>>])

merge_registrations(p) ==
    LET r == merge(p.state.registrations, FALSE)
    IN  IF r.err # "Ok" THEN Err(r.err, p)
        ELSE IF r.val.root = None THEN Err("MergeFailed", p)
        ELSE
          LET inputs == <<from_be_bytes_mod_order(Unwrap(r.val.root)),
                          from_be_bytes_mod_order(EMPTY_BALLOT_ROOTS(1)),
                          from_be_bytes_mod_order(ZeroBytes)>>
              commitment == PoseidonCircom(inputs)
          IN  IF commitment = HashError THEN Err("HashFailed", p)
              ELSE Ok([p EXCEPT !.state.registrations = r.val,
                                !.state.commitment.process = <<0, commitment>>])

merge_interactions(p) ==
    LET r == merge(p.state.interactions, TRUE)
    IN  IF r.err # "Ok" THEN Err(r.err, p)
        ELSE Ok([p EXCEPT !.state.interactions = r.val])

message_batch_size(p) ==
    u8_pow(p.state.interactions.arity, p.config.process_subtree_depth)

\* variant: a count that is a multiple of the batch size is not stepped
\* back by one batch
last_batch_index_unaligned(p) ==
    p.state.interactions.count
        - (p.state.interactions.count % message_batch_size(p))

\* the start of the last non-empty batch: where current_batch_index stands
\* before the offset of the proof is taken off
last_batch_index(p) ==
    LET count == p.state.interactions.count
        r == count % message_batch_size(p)
    IN  IF count > 0
        THEN IF r = 0 THEN count - message_batch_size(p) ELSE count - r
        ELSE count

\* variant: the last two signals are the zero digest and new_commitment
process_inputs_stale(p, coord, current_batch_index, curr_commitment, new_commitment) ==
    LET coord_pub_key_hash ==
            PoseidonCircom(<<from_be_bytes_mod_order(coord.public_key.x),
                             from_be_bytes_mod_order(coord.public_key.y)>>)
        end_batch_index ==
            IF current_batch_index + message_batch_size(p)
                   > p.state.interactions.count
            THEN p.state.interactions.count
            ELSE current_batch_index + message_batch_size(p)
    IN  IF coord_pub_key_hash = HashError \/ p.state.interactions.root = None
        THEN <<>>
        ELSE << Fr(p.state.registrations.count + 1),
                Fr(get_voting_period_end(p)),
                from_be_bytes_mod_order(Unwrap(p.state.interactions.root)),
                Fr(p.state.registrations.depth),
                Fr(end_batch_index),
                Fr(current_batch_index),
                coord_pub_key_hash,
                from_be_bytes_mod_order(ZeroBytes),
                from_be_bytes_mod_order(new_commitment) >>

\* the nine signals of the message processing circuit
process_inputs(p, coord, current_batch_index, curr_commitment, new_commitment) ==
    LET coord_pub_key_hash ==
            PoseidonCircom(<<from_be_bytes_mod_order(coord.public_key.x),
                             from_be_bytes_mod_order(coord.public_key.y)>>)
        end_batch_index ==
            IF current_batch_index + message_batch_size(p)
                   > p.state.interactions.count
            THEN p.state.interactions.count
            ELSE current_batch_index + message_batch_size(p)
    IN  IF coord_pub_key_hash = HashError \/ p.state.interactions.root = None
        THEN <<>>
        ELSE << Fr(p.state.registrations.count + 1),
                Fr(get_voting_period_end(p)),
                from_be_bytes_mod_order(Unwrap(p.state.interactions.root)),
                Fr(p.state.registrations.depth),
                Fr(end_batch_index),
                Fr(current_batch_index),
                coord_pub_key_hash,
                from_be_bytes_mod_order(curr_commitment),
                from_be_bytes_mod_order(new_commitment) >>

\* the verify key and the public signals of the batch proof_index addresses
get_proof_public_inputs(p, proof_index, coord, curr_commitment, new_commitment) ==
    LET index_offset == proof_index * message_batch_size(p)
    IN  IF index_offset <= last_batch_index(p)
        THEN [verify_key |-> coord.verify_key.process,
              inputs |-> process_inputs(p, coord,
                                        last_batch_index(p) - index_offset,
                                        curr_commitment, new_commitment)]
        ELSE [verify_key |-> coord.verify_key.tally, inputs |-> <<>>]

----------------------------------------------------------------------------
(* The extrinsics.  Every extrinsic is one atomic transition: on an error  *)
(* nothing is written and only `last' records the attempt.                 *)

MaxBatches == 2             \* most proof batches in one commit_outcome
MaxTallyOvershoot == 1      \* commit_outcome is explored while tally.0 is
                            \* below expected_tally + MaxTallyOvershoot

PublicKeys == { [x |-> Fr(11), y |-> Fr(12)] }
CoordinatorKey == [x |-> Fr(21), y |-> Fr(22)]
VerifyingKeys == [process |-> "vk_process", tally |-> "vk_tally"]
SharedKey == [x |-> Fr(31), y |-> Fr(32)]
MessageData == [i \in 1..10 |-> Fr(40 + i)]
Commitments == {Fr(51), Fr(52)}
VoteOptions == <<100, 101>>

NoExtrinsic ==
    [op |-> "none", err |-> "Ok", verifies |-> <<>>, log |-> <<>>,
     outcome_index |-> None]

Result(op, err) ==
    [op |-> op, err |-> err, verifies |-> <<>>, log |-> <<>>,
     outcome_index |-> None]

\* ceil(n / d)
CeilDiv(n, d) == (n + d - 1) \div d

\* a second key pair, for the calls that try to replace the stored one
OtherCoordinatorKey == [x |-> Fr(23), y |-> Fr(24)]
OtherVerifyingKeys == [process |-> "vk_process_2", tally |-> "vk_tally_2"]

CoordinatorKeyPairs ==
    { [public_key |-> CoordinatorKey, verify_key |-> VerifyingKeys],
      [public_key |-> OtherCoordinatorKey, verify_key |-> OtherVerifyingKeys] }

\* variant: the record of the account is not looked up
contains_key_never(record) == FALSE

\* Coordinators::contains_key(&sender)
contains_key(record) == record # None

\* the first registration is made with the first key pair; a repeated call
\* offers either pair
register_as_coordinator ==
    /\ \E keys \in IF coordinator = None
                    THEN {[public_key |-> CoordinatorKey,
                           verify_key |-> VerifyingKeys]}
                    ELSE CoordinatorKeyPairs :
         IF contains_key(coordinator)
         THEN /\ last' = Result("register_as_coordinator",
                                "CoordinatorAlreadyRegistered")
              /\ UNCHANGED coordinator
         ELSE /\ coordinator' = Some([public_key |-> keys.public_key,
                                      verify_key |-> keys.verify_key,
                                      last_poll |-> None])
              /\ last' = Result("register_as_coordinator", "Ok")
    /\ UNCHANGED <<now, poll, registered, participating, treeVars, call, coordVars, hashVars>>

\* Polls::get(id): the coordinator's latest poll or an earlier one
Polls(id) ==
    IF poll # None /\ Unwrap(poll).index = id THEN poll
    ELSE IF \E k \in 1..Len(archive) : archive[k].index = id
        THEN Some(CHOOSE q \in {archive[k] : k \in 1..Len(archive)} :
                      q.index = id)
    ELSE None

\* variant: only the earlier polls are counted
PollsCountEarlier == Len(archive)

\* Polls::count()
PollsCount == Len(archive) + (IF poll # None THEN 1 ELSE 0)

\* variant: a last poll counts as active only until it is over
last_poll_active_until_over(coord) ==
    /\ IsSome(coord.last_poll)
    /\ Polls(Unwrap(coord.last_poll)) # None
    /\ ~is_over(Unwrap(Polls(Unwrap(coord.last_poll))), now)

\* the coordinator has a last poll and it is not both over and fulfilled
last_poll_active(coord) ==
    /\ IsSome(coord.last_poll)
    /\ Polls(Unwrap(coord.last_poll)) # None
    /\ LET p == Unwrap(Polls(Unwrap(coord.last_poll)))
       IN  ~(is_over(p, now) /\ is_fulfilled(p))

rotate_keys ==
    /\ \E keys \in CoordinatorKeyPairs :
         LET err == IF coordinator = None THEN "CoordinatorNotRegistered"
                    ELSE IF last_poll_active(Unwrap(coordinator))
                        THEN "PollCurrentlyActive"
                    ELSE "Ok"
         IN  /\ coordinator' =
                    IF err = "Ok"
                    THEN Some([Unwrap(coordinator) EXCEPT
                                  !.public_key = keys.public_key,
                                  !.verify_key = keys.verify_key])
                    ELSE coordinator
             /\ last' = Result("rotate_keys", err)
    /\ UNCHANGED <<now, poll, registered, participating, treeVars, call, coordVars, hashVars>>

\* the arguments of create_poll that are explored: signup and voting
\* periods in blocks, then the five depths
PollArguments ==
    { [ signup_period |-> a[1], voting_period |-> a[2],
        registration_depth |-> a[3], interaction_depth |-> a[4],
        process_subtree_depth |-> a[5], tally_subtree_depth |-> a[6],
        vote_option_tree_depth |-> a[7] ] :
      a \in { <<1, 1, 1, 1, 1, 0, 1>>,
              <<1, 1, 2, 1, 0, 1, 2>>,
              <<2, 2, 1, 1, 1, 1, 3>> } }

\* the poll that create_poll stores under the id
new_poll(id, args) ==
    [ index |-> id,
      coordinator |-> "alice",
      created_at |-> now,
      state |-> PollState_new(args.registration_depth,
                              args.interaction_depth),
      config |->
        [ signup_period |-> args.signup_period,
          voting_period |-> args.voting_period,
          max_registrations |-> Pow(2, args.registration_depth) - 1,
          max_interactions |-> Pow(5, args.interaction_depth),
          process_subtree_depth |-> args.process_subtree_depth,
          tally_subtree_depth |-> args.tally_subtree_depth,
          vote_option_tree_depth |-> args.vote_option_tree_depth,
          vote_options |-> VoteOptions ] ]

create_poll ==
    LET err == IF coordinator = None THEN "CoordinatorNotRegistered"
               ELSE IF Len(poll_ids) >= max_polls
                   THEN "CoordinatorPollLimitReached"
               ELSE IF last_poll_active(Unwrap(coordinator))
                   THEN "PollCurrentlyActive"
               ELSE "Ok"
    IN  /\ last' = Result("create_poll", err)
        /\ IF err = "Ok"
           THEN /\ \E args \in PollArguments :
                     poll' = Some(new_poll(PollsCount, args))
                /\ archive' = IF poll # None
                              THEN Append(archive, Unwrap(poll))
                              ELSE archive
                /\ poll_ids' = Append(poll_ids, PollsCount)
                /\ coordinator' = Some([Unwrap(coordinator) EXCEPT
                                           !.last_poll = Some(PollsCount)])
                /\ registered' = <<>>
                /\ participating' = {}
           ELSE UNCHANGED <<coordinator, poll, registered, participating,
                            poll_ids, archive>>
        /\ UNCHANGED <<now, max_polls, treeVars, call, hashVars>>

\* the host moves on to the next block; the clock is followed from the
\* creation of the poll until the poll is over, after which no operation
\* reads it any more
advance_block ==
    /\ poll # None
    /\ ~is_over(Unwrap(poll), now)
    /\ now' = now + 1
    /\ UNCHANGED <<coordinator, poll, registered, participating, last, treeVars, call, coordVars, hashVars>>

\* the accounts that sign extrinsics: the coordinator's, and the others
\* numbered in the order of their first registration in the poll
CoordinatorAccount == 0

Senders == {CoordinatorAccount} \cup 1..(Cardinality(participating) + 1)

\* the checks on the signer that come before the poll is read
sender_check(sender) ==
    IF sender = CoordinatorAccount /\ coordinator # None
        THEN "CoordinatorNotRegistered"
    ELSE IF sender \in participating THEN "ParticipantAlreadyRegistered"
    ELSE "Ok"

register_as_participant ==
    /\ poll # None
    /\ \E sender \in Senders, public_key \in PublicKeys :
         LET p == Unwrap(poll)
             r == register_participant(p, public_key, now)
             err == IF sender_check(sender) # "Ok" THEN sender_check(sender)
                    ELSE IF ~is_registration_period(p, now)
                        THEN "PollRegistrationHasEnded"
                    ELSE IF registration_limit_reached(p)
                        THEN "ParticipantRegistrationLimitReached"
                    ELSE IF r.err # "Ok" THEN "PollRegistrationFailed"
                    ELSE "Ok"
         IN  /\ poll' = IF err = "Ok" THEN Some(r.val) ELSE poll
             /\ registered' =
                    IF err = "Ok"
                    THEN Append(registered, registration_leaf(public_key, now))
                    ELSE registered
             /\ participating' =
                    IF err = "Ok" THEN participating \cup {sender}
                    ELSE participating
             /\ last' = Result("register_as_participant", err)
    /\ UNCHANGED <<now, coordinator, treeVars, call, coordVars, hashVars>>

interact_with_poll ==
    /\ poll # None
    /\ LET p == Unwrap(poll)
           r == consume_interaction(p, SharedKey, MessageData)
           err == IF is_registration_period(p, now)
                      THEN "PollRegistrationInProgress"
                  ELSE IF is_over(p, now) THEN "PollVotingHasEnded"
                  ELSE IF interaction_limit_reached(p)
                      THEN "ParticipantInteractionLimitReached"
                  ELSE IF r.err # "Ok" THEN "PollInteractionFailed"
                  ELSE "Ok"
       IN  /\ poll' = IF err = "Ok" THEN Some(r.val) ELSE poll
           /\ last' = Result("interact_with_poll", err)
    /\ UNCHANGED <<now, coordinator, registered, participating, treeVars, call, coordVars, hashVars>>

\* the two expected proof counts recorded when the interactions are merged
record_expected(p) ==
    [p EXCEPT
       !.state.commitment.expected_process =
           CeilDiv(p.state.interactions.count,
                   Pow(p.state.interactions.arity, p.config.process_subtree_depth)),
       !.state.commitment.expected_tally =
           CeilDiv(p.state.registrations.count + 1,
                   Pow(p.state.registrations.arity, p.config.tally_subtree_depth))]

\* the check the interaction merge makes on the block: the voting period
\* ends one block before the poll is over
poll_in_voting_period(p, block) == is_voting_period(p, block)

merge_poll_state ==
    /\ poll # None
    /\ LET p == Unwrap(poll)
           regs == merge_registrations(p)
           ints == merge_interactions(p)
       IN  IF is_registration_period(p, now)
           THEN /\ last' = Result("merge_poll_state", "PollRegistrationInProgress")
                /\ UNCHANGED poll
           ELSE IF p.state.registrations.root = None
           THEN IF regs.err = "Ok"
                THEN /\ poll' = Some(regs.val)
                     /\ last' = Result("merge_registrations", "Ok")
                ELSE /\ last' = Result("merge_registrations", "PollMergeFailed")
                     /\ UNCHANGED poll
           ELSE IF poll_in_voting_period(p, now)
           THEN /\ last' = Result("merge_poll_state", "PollVotingInProgress")
                /\ UNCHANGED poll
           ELSE IF ints.err = "Ok"
                THEN /\ poll' = Some(record_expected(ints.val))
                     /\ last' = Result("merge_interactions", "Ok")
                ELSE /\ last' = Result("merge_interactions", "PollMergeFailed")
                     /\ UNCHANGED poll
    /\ UNCHANGED <<now, coordinator, registered, participating, treeVars, call, coordVars, hashVars>>

\* the phase a batch targets, computed from the chain state
TargetsProcess(p) ==
    p.state.commitment.process[1] < p.state.commitment.expected_process

\* verify the batches left to right from batch k on; log what each batch saw
RECURSIVE verify_batches(_, _, _, _, _)
verify_batches(p, coord, batches, k, log) ==
    IF k > Len(batches) THEN [err |-> "Ok", val |-> p, log |-> log]
    ELSE
      LET c == p.state.commitment
          process == TargetsProcess(p)
          slot == IF process THEN c.process ELSE c.tally
          proof_index == slot[1]
          curr_commitment == slot[2]
          new_commitment == batches[k].new_commitment
          signals == IF process
                     THEN get_proof_public_inputs(p, proof_index, coord,
                                                  curr_commitment, new_commitment)
                     ELSE [verify_key |-> coord.verify_key.tally, inputs |-> <<>>]
          advanced == <<proof_index + 1, new_commitment>>
          q == IF process
               THEN [p EXCEPT !.state.commitment.process = advanced]
               ELSE [p EXCEPT !.state.commitment.tally = advanced]
          entry == [ phase |-> IF process THEN "process" ELSE "tally",
                     proof_index |-> proof_index,
                     curr_commitment |-> curr_commitment,
                     new_commitment |-> new_commitment,
                     verify_key |-> signals.verify_key,
                     inputs |-> signals.inputs,
                     before |-> c,
                     after |-> q.state.commitment ]
      IN  IF ~batches[k].verifies
          THEN [err |-> "MalformedProof", val |-> p, log |-> log]
          ELSE verify_batches(q, coord, batches, k + 1, Append(log, entry))

FullyWound(p) ==
    /\ p.state.commitment.process[1] = p.state.commitment.expected_process
    /\ p.state.commitment.tally[1] = p.state.commitment.expected_tally

\* variant: the outcome is stored whether or not the chain is fully wound
finalise_outcome_unwound(p, outcome_index) ==
    IF /\ IsSome(outcome_index)
       /\ Unwrap(outcome_index) < Len(p.config.vote_options)
    THEN [p EXCEPT !.state.outcome =
                       Some(p.config.vote_options[Unwrap(outcome_index) + 1])]
    ELSE p

finalise_outcome(p, outcome_index) ==
    IF /\ IsSome(outcome_index)
       /\ FullyWound(p)
       /\ Unwrap(outcome_index) < Len(p.config.vote_options)
    THEN [p EXCEPT !.state.outcome =
                       Some(p.config.vote_options[Unwrap(outcome_index) + 1])]
    ELSE p

\* a batch: a proof that verifies or not, and the digest it claims; the
\* digest of a batch that does not verify is never read
BatchChoices ==
    { [verifies |-> TRUE, new_commitment |-> c] : c \in Commitments }
        \cup { [verifies |-> FALSE, new_commitment |-> ZeroBytes] }

\* the batches of one call: the procedure stops at the first batch that does
\* not verify, so such a batch is tried in the last place only
Batches ==
    { b \in UNION { [1..n -> BatchChoices] : n \in 0..MaxBatches } :
        \A k \in 1..(Len(b) - 1) : b[k].verifies }

OutcomeIndices == {None, Some(1), Some(Len(VoteOptions))}

\* variant: the advances of the batches that verified survive a failure
commit_batches_keep_advances(p, coord, batches, outcome_index) ==
    LET r == verify_batches(p, coord, batches, 1, <<>>)
    IN  IF r.err = "Ok"
        THEN [r EXCEPT !.val = finalise_outcome(r.val, outcome_index)]
        ELSE r

\* all batches of one call: on a failure the poll is left as it was, on
\* success the outcome is finalised
commit_batches(p, coord, batches, outcome_index) ==
    LET r == verify_batches(p, coord, batches, 1, <<>>)
    IN  IF r.err = "Ok"
        THEN [r EXCEPT !.val = finalise_outcome(r.val, outcome_index)]
        ELSE [r EXCEPT !.val = p]

commit_outcome ==
    /\ poll # None
    /\ LET p == Unwrap(poll)
       IN  IF ~is_merged(p)
           THEN /\ last' = Result("commit_outcome", "PollStateNotMerged")
                /\ UNCHANGED poll
           ELSE IF is_fulfilled(p)
           THEN /\ last' = Result("commit_outcome", "PollOutcomeAlreadyDetermined")
                /\ UNCHANGED poll
           ELSE
             /\ p.state.commitment.tally[1] <
                    p.state.commitment.expected_tally + MaxTallyOvershoot
             /\ \E batches \in Batches, outcome_index \in OutcomeIndices :
                  \E r \in { commit_batches(p, Unwrap(coordinator), batches,
                                            outcome_index) } :
                    /\ poll' = Some(r.val)
                    /\ last' =
                         [ op |-> "commit_outcome",
                           err |-> r.err,
                           verifies |-> [k \in 1..Len(batches) |->
                                            batches[k].verifies],
                           log |-> r.log,
                           outcome_index |-> IF r.err = "Ok"
                                             THEN outcome_index ELSE None ]
    /\ UNCHANGED <<now, coordinator, registered, participating, treeVars, call, coordVars, hashVars>>

\* the coordinator abandons a poll that saw no activity: legal once the
\* registration period has closed without a registration, or once the poll
\* is over without an interaction
nullify_poll ==
    /\ poll # None
    /\ LET p == Unwrap(poll)
           legal ==
               \/ /\ ~is_registration_period(p, now)
                  /\ p.state.registrations.count = 0
               \/ /\ is_over(p, now)
                  /\ p.state.interactions.count = 0
       IN  IF legal
           THEN /\ poll' = Some(nullify(p))
                /\ last' = Result("nullify_poll", "Ok")
           ELSE /\ last' = Result("nullify_poll", "PollCurrentlyActive")
                /\ UNCHANGED poll
    /\ UNCHANGED <<now, coordinator, registered, participating, treeVars, call, coordVars, hashVars>>

Init ==
    /\ now = 1
    /\ coordinator = None
    /\ poll = None
    /\ registered = <<>>
    /\ participating = {}
    /\ poll_ids = <<>> /\ archive = <<>> /\ max_polls = 1
    /\ last = NoExtrinsic
    /\ tree = PollStateTree_new(2, 0, None)
    /\ inserted = <<>>
    /\ treeOp = [op |-> "new", err |-> "Ok", to_depth |-> FALSE,
                 sentinel |-> FALSE, before |-> PollStateTree_new(2, 0, None)]
    /\ call = None
    /\ hasher = None /\ hashOp = None

Next ==
    \/ register_as_coordinator
    \/ create_poll
    \/ advance_block
    \/ register_as_participant
    \/ interact_with_poll
    \/ merge_poll_state
    \/ commit_outcome
    \/ nullify_poll

Spec == Init /\ [][Next]_vars

----------------------------------------------------------------------------
(* The coordinator's record and its polls: a runtime that admits two polls  *)
(* per coordinator, as the tests configure it, with polls that take         *)
(* registrations and are nullified when they are over.                      *)

MaxCoordinatorPolls == 2

InitCoordinator ==
    /\ now = 1
    /\ coordinator = None
    /\ poll = None
    /\ registered = <<>>
    /\ participating = {}
    /\ poll_ids = <<>> /\ archive = <<>>
    /\ max_polls \in 1..MaxCoordinatorPolls
    /\ last = NoExtrinsic
    /\ tree = PollStateTree_new(2, 0, None)
    /\ inserted = <<>>
    /\ treeOp = [op |-> "new", err |-> "Ok", to_depth |-> FALSE,
                 sentinel |-> FALSE, before |-> PollStateTree_new(2, 0, None)]
    /\ call = None
    /\ hasher = None /\ hashOp = None

NextCoordinator ==
    \/ register_as_coordinator
    \/ rotate_keys
    \/ create_poll
    \/ advance_block
    \/ register_as_participant
    \/ nullify_poll

SpecCoordinator == InitCoordinator /\ [][NextCoordinator]_vars

----------------------------------------------------------------------------
(* The accumulator on its own: a tree of either arity, with or without the *)
(* sentinel entry, receives leaves and merges in either mode.              *)

VariedLeaves == 3       \* positions whose leaf value is chosen freely

TreeDepths(arity) == IF arity = 2 THEN 0..MaxBinaryDepth ELSE 0..MaxQuinaryDepth

LeafChoices(pos) == IF pos <= VariedLeaves THEN {Fr(1), Fr(2)} ELSE {Fr(pos + 2)}

\* the entries a tree holds: the sentinel, if any, then the inserted leaves
Held(sentinel, leaves) ==
    IF sentinel THEN <<get_merkle_zeroes(2, 0)>> \o leaves ELSE leaves

InitTree ==
    /\ \E arity \in {2, 5}, sentinel \in BOOLEAN :
         \E full_depth \in TreeDepths(arity) :
           /\ tree = PollStateTree_new(arity, full_depth,
                        IF sentinel THEN Some(<<0, get_merkle_zeroes(2, 0)>>)
                        ELSE None)
           /\ treeOp = [op |-> "new", err |-> "Ok", to_depth |-> FALSE,
                        sentinel |-> sentinel,
                        before |-> PollStateTree_new(arity, full_depth, None)]
    /\ inserted = <<>>
    /\ now = 0 /\ coordinator = None /\ poll = None /\ registered = <<>>
    /\ participating = {}
    /\ poll_ids = <<>> /\ archive = <<>> /\ max_polls = 1
    /\ last = NoExtrinsic
    /\ call = None
    /\ hasher = None /\ hashOp = None

TreeInsert ==
    /\ Len(inserted) < Pow(tree.arity, tree.full_depth) + 1
    /\ \E leaf \in LeafChoices(Len(inserted) + 1) :
         LET r == insert(tree, leaf)
         IN  /\ tree' = r.val
             /\ inserted' = IF r.err = "Ok" THEN Append(inserted, leaf)
                            ELSE inserted
             /\ treeOp' = [treeOp EXCEPT !.op = "insert", !.err = r.err,
                                         !.before = tree]
    /\ UNCHANGED <<pollVars, call, hashVars>>

TreeMerge ==
    /\ \E to_depth \in BOOLEAN :
         LET r == merge(tree, to_depth)
         IN  /\ tree' = r.val
             /\ treeOp' = [treeOp EXCEPT !.op = "merge", !.err = r.err,
                                         !.to_depth = to_depth,
                                         !.before = tree]
    /\ UNCHANGED <<inserted, pollVars, call, hashVars>>

NextTree == TreeInsert \/ TreeMerge

SpecTree == InitTree /\ [][NextTree]_vars

----------------------------------------------------------------------------
\* C2: on a tree created without a sentinel, inserting n leaves with
\* 1 <= n < arity^full_depth and then calling merge(to_depth = true) sets
\* root to the root of the reference full-depth tree over the inserted
\* leaves in insertion order, right-padded with zeroes, and empties hashes.
C2_MergeToDepthIsReferenceRoot ==
    ( /\ treeOp.op = "merge" /\ treeOp.to_depth /\ treeOp.before.root = None
      /\ ~treeOp.sentinel
      /\ Len(inserted) >= 1
      /\ Len(inserted) < Pow(tree.arity, tree.full_depth) )
    => /\ treeOp.err = "Ok"
       /\ tree.root = Some(ReferenceRoot(tree.arity, tree.full_depth, inserted))
       /\ tree.hashes = <<>>

\* a merge to depth of a partly filled arity-5 tree and of an arity-2 tree
\* holding three leaves (two levels of padding) has happened
C2_Witness ==
    /\ treeOp.op = "merge" /\ treeOp.to_depth /\ treeOp.err = "Ok"
    /\ ~treeOp.sentinel
    /\ tree.arity = 2 /\ tree.full_depth = 3 /\ Len(inserted) = 3
    /\ IsSome(tree.root)

----------------------------------------------------------------------------
(* Registration merge.                                                     *)

\* merge_registrations has just succeeded on the poll
RegistrationsJustMerged ==
    /\ poll # None
    /\ last.op = "merge_registrations" /\ last.err = "Ok"

\* what the registration tree holds: the sentinel, then the registered leaves
RegistrationLeaves == <<get_merkle_zeroes(ARITY_REGISTRATIONS, 0)>> \o registered

C3_SeedUsesConfiguredDepth ==
    RegistrationsJustMerged =>
        LET p == Unwrap(poll)
        IN  p.state.commitment.process =
                <<0, PoseidonCircom(<<Unwrap(p.state.registrations.root),
                         EMPTY_BALLOT_ROOTS(p.config.vote_option_tree_depth),
                         ZeroBytes>>)>>

----------------------------------------------------------------------------
(* get_proof_public_inputs on its own: polls are built with the provider   *)
(* operations, merged, and then queried for every proof index.             *)

MaxInputDepth == 4          \* deepest interaction tree queried
MaxInputInteractions == 7   \* most interactions of a queried poll
MaxProofIndex == 4          \* largest proof_index queried

TheCoordinator ==
    [public_key |-> CoordinatorKey, verify_key |-> VerifyingKeys,
     last_poll |-> Some(0)]

InitInputs ==
    /\ now = 1
    /\ coordinator = Some(TheCoordinator)
    /\ \E interaction_depth \in 1..MaxInputDepth :
         \E process_subtree_depth \in 0..interaction_depth :
           poll = Some(
             [ index |-> 0,
               coordinator |-> "alice",
               created_at |-> 1,
               state |-> PollState_new(2, interaction_depth),
               config |->
                 [ signup_period |-> 1,
                   voting_period |-> 1,
                   max_registrations |-> Pow(2, 2) - 1,
                   max_interactions |-> Pow(5, interaction_depth),
                   process_subtree_depth |-> process_subtree_depth,
                   tally_subtree_depth |-> 1,
                   vote_option_tree_depth |-> 1,
                   vote_options |-> VoteOptions ] ])
    /\ registered = <<>>
    /\ participating = {}
    /\ poll_ids = <<0>> /\ archive = <<>> /\ max_polls = 1
    /\ last = NoExtrinsic
    /\ tree = PollStateTree_new(2, 0, None)
    /\ inserted = <<>>
    /\ treeOp = [op |-> "new", err |-> "Ok", to_depth |-> FALSE,
                 sentinel |-> FALSE, before |-> PollStateTree_new(2, 0, None)]
    /\ call = None
    /\ hasher = None /\ hashOp = None

\* consume_interaction on the poll, before it is merged
input_consume_interaction ==
    /\ last.op = "none"
    /\ Unwrap(poll).state.interactions.count < MaxInputInteractions
    /\ LET r == consume_interaction(Unwrap(poll), SharedKey, MessageData)
       IN  /\ r.err = "Ok"
           /\ poll' = Some(r.val)
    /\ UNCHANGED <<now, coordinator, registered, participating, last, treeVars, call, coordVars, hashVars>>

\* merge_registrations, then merge_interactions with the expected counts
input_merge ==
    /\ last.op = "none"
    /\ LET regs == merge_registrations(Unwrap(poll))
           ints == merge_interactions(regs.val)
       IN  /\ regs.err = "Ok"
           /\ poll' = Some(IF ints.err = "Ok" THEN record_expected(ints.val)
                           ELSE regs.val)
           /\ last' = Result("merge_interactions", ints.err)
    /\ UNCHANGED <<now, coordinator, registered, participating, treeVars, call, coordVars, hashVars>>

input_get_proof_public_inputs ==
    /\ last.op = "merge_interactions"
    /\ \E proof_index \in 0..MaxProofIndex,
          curr_commitment \in Commitments, new_commitment \in Commitments :
         call' = Some(
           [ proof_index |-> proof_index,
             curr_commitment |-> curr_commitment,
             new_commitment |-> new_commitment,
             result |-> get_proof_public_inputs(Unwrap(poll), proof_index,
                            Unwrap(coordinator), curr_commitment,
                            new_commitment) ])
    /\ UNCHANGED <<now, coordinator, poll, registered, participating, last, treeVars, coordVars, hashVars>>

NextInputs ==
    \/ input_consume_interaction
    \/ input_merge
    \/ input_get_proof_public_inputs

SpecInputs == InitInputs /\ [][NextInputs]_vars

\* batch size and number of process batches of the queried poll
BatchSize ==
    Pow(ARITY_INTERACTIONS, Unwrap(poll).config.process_subtree_depth)

ExpectedProcess == CeilDiv(Unwrap(poll).state.interactions.count, BatchSize)

\* C4: on a poll whose trees were merged, get_proof_public_inputs selects
\* vk.process and builds the nine process signals exactly when
\* proof_index < ceil(count / batch_size), and selects vk.tally otherwise,
\* for every count >= 0.
C4_ProcessIffBelowExpected ==
    call # None =>
        LET c == Unwrap(call)
        IN  IF c.proof_index < ExpectedProcess
            THEN /\ c.result.verify_key = VerifyingKeys.process
                 /\ Len(c.result.inputs) = 9
            ELSE c.result.verify_key = VerifyingKeys.tally

\* the batch range the signals of proof q carry
SignalsOf(q) ==
    get_proof_public_inputs(Unwrap(poll), q, Unwrap(coordinator),
                            ZeroBytes, ZeroBytes).inputs

CurrentBatchIndex(q) == SignalsOf(q)[6][2]

EndBatchIndex(q) == SignalsOf(q)[5][2]

----------------------------------------------------------------------------
(* The commitment chain under commit_outcome.                              *)

\* this step is a commit_outcome call (the only step that leaves `last'
\* alone is advance_block, and it changes `now')
CommitStep == last'.op = "commit_outcome" /\ now' = now

\* this step is a commit_outcome call that got as far as verifying batches
VerifyingStep ==
    /\ CommitStep
    /\ last'.err \in {"Ok", "MalformedProof"}

Commitment(pl) == Unwrap(pl).state.commitment

\* batch i of the log advanced exactly the slot it targeted, from the
\* commitment c the batch found
AdvancesOneSlot(e, c) ==
    /\ e.before = c
    /\ e.after.expected_process = c.expected_process
    /\ e.after.expected_tally = c.expected_tally
    /\ IF e.phase = "process"
       THEN /\ e.after.process = <<c.process[1] + 1, e.new_commitment>>
            /\ e.after.tally = c.tally
            /\ e.verify_key = VerifyingKeys.process
            /\ Len(e.inputs) = 9
            /\ e.inputs[9] = e.new_commitment
       ELSE /\ e.after.tally = <<c.tally[1] + 1, e.new_commitment>>
            /\ e.after.process = c.process
            /\ e.verify_key = VerifyingKeys.tally

\* the accepted batches of the step, each advancing one slot from where the
\* batch before it left the chain, the last one leaving the stored chain
AcceptedBatchesAdvance ==
    LET log == last'.log
    IN  /\ \A i \in 1..Len(log) :
              AdvancesOneSlot(log[i], IF i = 1 THEN Commitment(poll)
                                      ELSE log[i - 1].after)
        /\ Commitment(poll') = IF log = <<>> THEN Commitment(poll)
                               ELSE Last(log).after

C7_FailedBatchRevertsCall ==
    [][ VerifyingStep =>
          /\ (\E k \in 1..Len(last'.verifies) : ~last'.verifies[k])
                 <=> last'.err = "MalformedProof"
          /\ last'.err = "MalformedProof" =>
                 /\ poll' = poll
                 /\ coordinator' = coordinator
                 /\ registered' = registered
      ]_vars

\* a call failed at its second batch after its first batch had verified
C7_Witness ==
    /\ last.op = "commit_outcome" /\ last.err = "MalformedProof"
    /\ last.verifies = <<TRUE, FALSE>>
    /\ Len(last.log) = 1

C9_IndicesWithinExpected ==
    poll # None =>
        /\ Commitment(poll).process[1] <= Commitment(poll).expected_process
        /\ Commitment(poll).tally[1] <= Commitment(poll).expected_tally

\* C10: over every step on a poll the proof-index counters process.0 and
\* tally.0 do not decrease.
C10_IndicesNeverDecrease ==
    [][ (poll # None /\ poll' # None) =>
          /\ Commitment(poll').process[1] >= Commitment(poll).process[1]
          /\ Commitment(poll').tally[1] >= Commitment(poll).tally[1]
      ]_vars

\* both counters have advanced on a poll whose registrations were merged by
\* merge_registrations
C10_Witness ==
    /\ poll # None
    /\ Commitment(poll).process[1] >= 2
    /\ Commitment(poll).tally[1] >= 1
    /\ Len(registered) = 1

----------------------------------------------------------------------------
NullifiedPollReached ==
    /\ poll # None
    /\ last.op = "nullify_poll" /\ last.err = "Ok"
    /\ Unwrap(poll).state.tombstone
    /\ Unwrap(poll).state.outcome = None

----------------------------------------------------------------------------
(* The block-height windows.  t is the block the poll was created at.      *)

\* a step that is a register_as_participant call / an interact_with_poll call
RegisterStep == poll # None /\ last'.op = "register_as_participant" /\ now' = now
InteractStep == poll # None /\ last'.op = "interact_with_poll" /\ now' = now

\* the call was not turned away by a check on its signer, which comes before
\* the poll is read
ReachesPollChecks ==
    last'.err \notin {"CoordinatorNotRegistered", "ParticipantAlreadyRegistered"}

PassesRegistrationTiming == last'.err # "PollRegistrationHasEnded"

PassesInteractionTiming ==
    last'.err \notin {"PollRegistrationInProgress", "PollVotingHasEnded"}

RegistrationEnd == Unwrap(poll).created_at + Unwrap(poll).config.signup_period

VotingEnd == RegistrationEnd + Unwrap(poll).config.voting_period

\* C12 as stated: for a poll created at block t, register_as_participant
\* passes its timing check at block b if and only if
\* t+1 <= b <= t+signup_period.
C12_RegistrationWindowFromNextBlock ==
    [][ (RegisterStep /\ ReachesPollChecks) =>
          ( PassesRegistrationTiming <=>
              (Unwrap(poll).created_at + 1 <= now /\ now <= RegistrationEnd) )
      ]_vars

\* C12, amended: for a poll created at block t, register_as_participant
\* passes its timing check at block b if and only if
\* t <= b <= t+signup_period-1.
C12_RegistrationWindowFromCreation ==
    [][ (RegisterStep /\ ReachesPollChecks) =>
          ( PassesRegistrationTiming <=>
              (Unwrap(poll).created_at <= now /\ now <= RegistrationEnd - 1) )
      ]_vars

\* a registration was accepted in the block the poll was created in
C12_Witness ==
    /\ poll # None
    /\ last.op = "register_as_participant" /\ last.err = "Ok"
    /\ now = Unwrap(poll).created_at

\* a registration was turned away in block t+signup_period
RegistrationRejectedAtEnd ==
    /\ poll # None
    /\ last.op = "register_as_participant"
    /\ last.err = "PollRegistrationHasEnded"
    /\ now = RegistrationEnd

InteractionAcceptedAtEnd ==
    /\ poll # None
    /\ last.op = "interact_with_poll" /\ last.err = "Ok"
    /\ now = VotingEnd

InteractionRejectedEarly ==
    /\ poll # None
    /\ last.op = "interact_with_poll"
    /\ last.err = "PollRegistrationInProgress"
    /\ now < RegistrationEnd

----------------------------------------------------------------------------
(* Admission: the caps and the duplicates.                                 *)

RegistrationCount(pl) == Unwrap(pl).state.registrations.count

InteractionCount(pl) == Unwrap(pl).state.interactions.count

CountsWithinCaps ==
    poll # None =>
        /\ RegistrationCount(poll) <= Unwrap(poll).config.max_registrations
        /\ InteractionCount(poll) <= Unwrap(poll).config.max_interactions

InteractionRejectedAtCap ==
    /\ poll # None
    /\ last.op = "interact_with_poll"
    /\ last.err = "ParticipantInteractionLimitReached"
    /\ InteractionCount(poll) = Unwrap(poll).config.max_interactions

\* the one public key that is explored is already registered in the poll
KeyAlreadyRegistered ==
    \E k \in 1..Len(registered), pk \in PublicKeys, block \in 1..now :
        registered[k] = registration_leaf(pk, block)

\* C16: register_as_participant with a public key that is already
\* registered in the same poll, submitted by the same signer or by another
\* one, succeeds whenever the registration window is open and the cap is not
\* reached, and each such call adds one leaf and increments
\* registrations.count by exactly one.
C16_DuplicateKeyAccepted ==
    [][ ( /\ RegisterStep
          /\ KeyAlreadyRegistered
          /\ is_registration_period(Unwrap(poll), now)
          /\ ~registration_limit_reached(Unwrap(poll)) )
        => ( /\ last'.err = "Ok"
             /\ Len(registered') = Len(registered) + 1
             /\ RegistrationCount(poll') = RegistrationCount(poll) + 1 )
      ]_vars

\* the same, for the signers that have not registered in the poll before:
\* a key registered by one account is accepted again from another
DuplicateKeyFromAnotherSignerAccepted ==
    [][ ( /\ RegisterStep
          /\ KeyAlreadyRegistered
          /\ ReachesPollChecks
          /\ is_registration_period(Unwrap(poll), now)
          /\ ~registration_limit_reached(Unwrap(poll)) )
        => ( /\ last'.err = "Ok"
             /\ Len(registered') = Len(registered) + 1
             /\ RegistrationCount(poll') = RegistrationCount(poll) + 1 )
      ]_vars

\* the key was registered three times in one poll
DuplicateKeyRegisteredThrice ==
    /\ poll # None
    /\ last.op = "register_as_participant" /\ last.err = "Ok"
    /\ Len(registered) = 3
    /\ participating = {1, 2, 3}

----------------------------------------------------------------------------
(* The accumulator under insert.                                           *)

InsertSucceeded == treeOp.op = "insert" /\ treeOp.err = "Ok"

\* the depths of the entries of hashes, first to last
Depths(t) == [i \in 1..Len(t.hashes) |-> t.hashes[i][1]]

\* C17: insert on a tree whose root is already set returns TreeAlreadyFull
\* and changes none of count, depth, hashes and root.
C17_InsertOnMergedTreeRejected ==
    (treeOp.op = "insert" /\ IsSome(treeOp.before.root)) =>
        /\ treeOp.err = "TreeAlreadyFull"
        /\ tree.count = treeOp.before.count
        /\ tree.depth = treeOp.before.depth
        /\ tree.hashes = treeOp.before.hashes
        /\ tree.root = treeOp.before.root
        /\ tree = treeOp.before

\* an insert was turned away by a tree that a merge had closed before it
\* was full
C17_Witness ==
    /\ treeOp.op = "insert" /\ treeOp.err = "TreeAlreadyFull"
    /\ IsSome(tree.root)
    /\ tree.count >= 1
    /\ tree.count < Pow(tree.arity, tree.full_depth) - 1

\* an insert was turned away by a tree that its last insert had filled
InsertOnFullTreeRejected ==
    /\ treeOp.op = "insert" /\ treeOp.err = "TreeAlreadyFull"
    /\ ~treeOp.sentinel
    /\ tree.full_depth >= 1
    /\ tree.count = Pow(tree.arity, tree.full_depth)

\* C18 as stated: after every successful insert the depths of the entries
\* of hashes, read first to last, are monotone non-decreasing.
C18_DepthsNonDecreasing ==
    InsertSucceeded =>
        \A i, j \in 1..Len(tree.hashes) :
            i < j => Depths(tree)[i] <= Depths(tree)[j]

\* C18, amended: after every successful insert the depths of the entries of
\* hashes, read first to last, are monotone non-increasing: the deepest
\* pending subtree root comes first and the newest leaves last.
C18_DepthsNonIncreasing ==
    InsertSucceeded =>
        \A i, j \in 1..Len(tree.hashes) :
            i < j => Depths(tree)[i] >= Depths(tree)[j]

\* seven leaves in a binary tree of depth 3: pending roots of depth 2, 1, 0
C18_Witness ==
    /\ InsertSucceeded
    /\ tree.arity = 2
    /\ Depths(tree) = <<2, 1, 0>>

\* C19: after every successful insert no depth value is carried by more
\* than arity - 1 entries of hashes.
C19_AtMostArityLessOnePerDepth ==
    InsertSucceeded =>
        \A i \in 1..Len(tree.hashes) :
            Cardinality({j \in 1..Len(tree.hashes) :
                            Depths(tree)[j] = Depths(tree)[i]})
                <= tree.arity - 1

\* an arity-5 tree holds four pending leaves, one short of a subtree
C19_Witness ==
    /\ InsertSucceeded
    /\ tree.arity = 5
    /\ Depths(tree) = <<0, 0, 0, 0>>

\* C20: after N successful inserts into a new tree count = N; the sentinel
\* entry a tree is created with is not counted.  (A merge leaves count as it
\* is, so the equality holds with merges in between as well.)
C20_CountIsNumberOfInserts ==
    tree.count = Len(inserted)

\* a tree created with the sentinel took three leaves
C20_Witness ==
    /\ InsertSucceeded
    /\ treeOp.sentinel
    /\ Len(inserted) = 3
    /\ tree.count = 3

----------------------------------------------------------------------------
\* the leaves a poll lets into a tree: the caps of create_poll, one less than
\* the leaf positions for the tree whose first position holds the sentinel
LeafCapacity(t, sentinel) ==
    Pow(t.arity, t.full_depth) - (IF sentinel THEN 1 ELSE 0)

QuinaryPendingReached ==
    /\ InsertSucceeded
    /\ tree.arity = ARITY_INTERACTIONS /\ ~treeOp.sentinel
    /\ tree.full_depth = 1
    /\ Len(tree.hashes) = 4

\* the same bound without the cap on the leaves: the sentinel tree of depth
\* 0 takes a leaf, keeps one pending entry of depth 1 and never sets root
PendingWithinArityTimesDepthUncapped ==
    ( /\ InsertSucceeded
      /\ \/ (tree.arity = ARITY_REGISTRATIONS /\ treeOp.sentinel)
         \/ (tree.arity = ARITY_INTERACTIONS /\ ~treeOp.sentinel) )
    => Len(tree.hashes) <= tree.arity * tree.full_depth

----------------------------------------------------------------------------
(* The coordinator's operations.                                           *)

NullifyStep == poll # None /\ last'.op = "nullify_poll" /\ now' = now

\* the registration window has closed without a registration, or the poll
\* is over without an interaction
NullifyLegal ==
    \/ (now >= RegistrationEnd /\ RegistrationCount(poll) = 0)
    \/ (now > VotingEnd /\ InteractionCount(poll) = 0)

\* C22: nullify_poll succeeds only if the registration window has closed
\* and registrations.count = 0, or the poll is over and interactions.count =
\* 0; in every other state it fails with PollCurrentlyActive and tombstone
\* stays false.  A poll that has a registration and an interaction is never
\* nullified.
C22_NullifyOnlyWithoutActivity ==
    /\ [][ NullifyStep =>
             /\ (last'.err = "Ok" => NullifyLegal)
             /\ (~NullifyLegal =>
                    /\ last'.err = "PollCurrentlyActive"
                    /\ ~Unwrap(poll).state.tombstone
                    /\ poll' = poll)
       ]_vars
    /\ [](poll # None =>
            ( (RegistrationCount(poll) >= 1 /\ InteractionCount(poll) >= 1)
              => ~Unwrap(poll).state.tombstone ))

\* nullify_poll was turned away on a poll that is over and holds a
\* registration and an interaction
C22_Witness ==
    /\ poll # None
    /\ last.op = "nullify_poll" /\ last.err = "PollCurrentlyActive"
    /\ now > VotingEnd
    /\ RegistrationCount(poll) >= 1 /\ InteractionCount(poll) >= 1
    /\ ~Unwrap(poll).state.tombstone

\* nullify_poll succeeded after the poll, on registrations without an
\* interaction
NullifiedWithoutInteraction ==
    /\ poll # None
    /\ last.op = "nullify_poll" /\ last.err = "Ok"
    /\ RegistrationCount(poll) >= 1 /\ InteractionCount(poll) = 0
    /\ Unwrap(poll).state.tombstone

CreateStep == last'.op = "create_poll" /\ now' = now

StorageUnchanged ==
    /\ coordinator' = coordinator /\ poll' = poll
    /\ poll_ids' = poll_ids /\ archive' = archive

\* every poll of the coordinator that is stored
StoredPolls ==
    {archive[k] : k \in 1..Len(archive)}
        \cup (IF poll # None THEN {Unwrap(poll)} ELSE {})

OverAndFulfilled(p) == is_over(p, now) /\ is_fulfilled(p)

\* the caller's previous poll exists and is not both over and fulfilled
PreviousPollOpen == poll # None /\ ~OverAndFulfilled(Unwrap(poll))

PollLimitReached ==
    /\ last.op = "create_poll" /\ last.err = "CoordinatorPollLimitReached"
    /\ max_polls = 2 /\ Len(poll_ids) = 2
    /\ \A q \in StoredPolls : OverAndFulfilled(q)

RotateStep == last'.op = "rotate_keys" /\ now' = now

\* last_poll is set and that poll is not both over (the block is past the
\* voting window) and fulfilled (outcome set or nullified)
LastPollUnfinished ==
    /\ IsSome(Unwrap(coordinator).last_poll)
    /\ poll # None
    /\ Unwrap(poll).index = Unwrap(Unwrap(coordinator).last_poll)
    /\ ~( /\ now > VotingEnd
          /\ \/ IsSome(Unwrap(poll).state.outcome)
             \/ Unwrap(poll).state.tombstone )

RotateRejectedInRegistration ==
    /\ last.op = "rotate_keys" /\ last.err = "PollCurrentlyActive"
    /\ poll # None
    /\ is_registration_period(Unwrap(poll), now)

\* rotate_keys replaced the keys after the poll was over and nullified
RotatedAfterPoll ==
    /\ last.op = "rotate_keys" /\ last.err = "Ok"
    /\ poll # None /\ OverAndFulfilled(Unwrap(poll))
    /\ Unwrap(coordinator).public_key = OtherCoordinatorKey
    /\ Unwrap(coordinator).last_poll = Some(Unwrap(poll).index)

RegisterCoordinatorStep == last'.op = "register_as_coordinator" /\ now' = now

MergeStep ==
    /\ poll # None
    /\ last'.op \in {"merge_poll_state", "merge_registrations", "merge_interactions"}
    /\ now' = now

RegistrationRoot(pl) == Unwrap(pl).state.registrations.root

InteractionRoot(pl) == Unwrap(pl).state.interactions.root

\* the blocks at which register_as_participant passes its timing check
RegistrationWindowOpen == now < RegistrationEnd

\* the blocks at which interact_with_poll passes its timing checks
VotingWindowOpen == now >= RegistrationEnd /\ now <= VotingEnd

\* merge_poll_state fails with PollRegistrationInProgress while the
\* registration window is open, and changes nothing
MergeWaitsForRegistrationEnd ==
    [][ (MergeStep /\ RegistrationWindowOpen) =>
          (last'.err = "PollRegistrationInProgress" /\ poll' = poll) ]_vars

\* a successful call on a poll without a registration root sets that root
\* and leaves the interaction tree alone; a successful call on a poll with a
\* registration root leaves the registration tree alone; no call sets the
\* interaction root of a poll without a registration root
RegistrationsMergedFirst ==
    /\ [][ (MergeStep /\ InteractionRoot(poll') # InteractionRoot(poll)) =>
             RegistrationRoot(poll) # None ]_vars
    /\ [][ (MergeStep /\ last'.err = "Ok") =>
             IF RegistrationRoot(poll) = None
             THEN /\ last'.op = "merge_registrations"
                  /\ RegistrationRoot(poll') # None
                  /\ Unwrap(poll').state.interactions = Unwrap(poll).state.interactions
             ELSE /\ last'.op = "merge_interactions"
                  /\ Unwrap(poll').state.registrations = Unwrap(poll).state.registrations
       ]_vars

\* the interaction merge fails with PollVotingInProgress, and changes
\* nothing, at every block of the voting window
InteractionMergeWaitsForVotingEnd ==
    [][ (MergeStep /\ RegistrationRoot(poll) # None /\ VotingWindowOpen) =>
          (last'.err = "PollVotingInProgress" /\ poll' = poll) ]_vars

\* no call merges a tree at a block of the tree's own window
NoMergeInsideOwnWindow ==
    [][ (MergeStep /\ last'.err = "Ok") =>
          /\ (last'.op = "merge_registrations" => ~RegistrationWindowOpen)
          /\ (last'.op = "merge_interactions" => ~VotingWindowOpen) ]_vars

\* C27: merge_poll_state merges the registration tree on its first
\* successful call and the interaction tree on the next one; it fails with
\* PollRegistrationInProgress while the registration window is open, and
\* the interaction merge fails with PollVotingInProgress until the voting
\* window has closed; the interaction root is never set before the
\* registration root, and no tree is merged while its own window is open.
C27_MergeOnlyAfterOwnWindow ==
    /\ MergeWaitsForRegistrationEnd
    /\ RegistrationsMergedFirst
    /\ InteractionMergeWaitsForVotingEnd
    /\ NoMergeInsideOwnWindow

\* what holds of merge_poll_state: the registration gate, the order of the
\* two merges, and the interaction gate at the blocks of the voting period,
\* which ends one block before the voting window does
MergeOrderAndGates ==
    /\ MergeWaitsForRegistrationEnd
    /\ RegistrationsMergedFirst
    /\ [][ (MergeStep /\ RegistrationRoot(poll) # None
              /\ now >= RegistrationEnd /\ now < VotingEnd) =>
             (last'.err = "PollVotingInProgress" /\ poll' = poll) ]_vars
    /\ [][ (MergeStep /\ last'.err = "Ok" /\ last'.op = "merge_registrations")
             => ~RegistrationWindowOpen ]_vars

\* the interactions were merged at the last block of the voting window
InteractionsMergedInsideVotingWindow ==
    /\ poll # None
    /\ last.op = "merge_interactions" /\ last.err = "Ok"
    /\ now = VotingEnd
    /\ InteractionRoot(poll) # None

\* an interaction sent inside the voting window was turned away because the
\* interactions were already merged
InteractionRejectedAfterEarlyMerge ==
    /\ poll # None
    /\ last.op = "interact_with_poll" /\ last.err = "PollInteractionFailed"
    /\ now = VotingEnd
    /\ InteractionRoot(poll) # None
    /\ InteractionCount(poll) < Unwrap(poll).config.max_interactions

----------------------------------------------------------------------------
(* The Poseidon hasher on its own: new_circom, hash, hash_bytes_be and     *)
(* hash_bytes_le.  usize, the byte and the field are narrow stand-ins that *)
(* keep what the code depends on: nr_inputs + 1 wraps at the width of      *)
(* usize, a byte string of modulus length can hold a value at or above the *)
(* modulus, and from_le_bytes_mod_order reduces.                           *)

\* usize has UsizeBits bits
UsizeBits == 4

\* a byte has BYTE_BITS bits
BYTE_BITS == 1

\* F::MODULUS_BIT_SIZE and F::MODULUS: a modulus of MODULUS_BIT_SIZE bits
MODULUS_BIT_SIZE == 3
MODULUS == 5

\* the field elements handed to hash
FieldValues == {1, 2}

\* inputs of every length up to MaxVariedInputs are tried with every value,
\* longer ones with one value repeated
MaxVariedInputs == 2

\* the calls made on one hasher are counted up to MaxHashCalls
MaxHashCalls == 2

NrInputs == 0..(Pow(2, UsizeBits) - 1)

\* the lookup table of the parameters: one entry per width in [2, 13]
get_poseidon_parameters(width) ==
    IF width < 2 \/ width > MAX_X5_LEN
    THEN Err("InvalidWidthCircom", None)
    ELSE Ok([width |-> width, alpha |-> 5])

\* Poseidon::with_domain_tag
with_domain_tag(params, domain_tag) ==
    [params |-> params, domain_tag |-> domain_tag, state |-> <<>>]

\* variant: the widest hasher is turned away as well
with_domain_tag_circom_narrow(nr_inputs, domain_tag) ==
    LET width == (nr_inputs + 1) % Pow(2, UsizeBits)
    IN  IF width >= MAX_X5_LEN THEN Err("InvalidWidthCircom", None)
        ELSE LET params == get_poseidon_parameters(width)
             IN  IF params.err # "Ok" THEN Err(params.err, None)
                 ELSE Ok(with_domain_tag(params.val, domain_tag))

\* nr_inputs + 1 as the release build computes it
with_domain_tag_circom(nr_inputs, domain_tag) ==
    LET width == (nr_inputs + 1) % Pow(2, UsizeBits)
    IN  IF width > MAX_X5_LEN THEN Err("InvalidWidthCircom", None)
        ELSE LET params == get_poseidon_parameters(width)
             IN  IF params.err # "Ok" THEN Err(params.err, None)
                 ELSE Ok(with_domain_tag(params.val, domain_tag))

new_circom(nr_inputs) == with_domain_tag_circom(nr_inputs, Fr(0))

\* the rounds: state[0] after the permutation, named by the state the
\* permutation started from (the domain tag of new_circom, then the inputs)
permutation_output(state) ==
    IF Head(state) = Fr(0) THEN <<"H", Tail(state)>> ELSE <<"H", state>>

\* variant: the state is not cleared after the rounds
PoseidonHasher_hash_keeping_state(self, inputs) ==
    IF Len(inputs) # self.params.width - 1
    THEN [err |-> "InvalidNumberOfInputs", val |-> None, self |-> self]
    ELSE LET state == (self.state \o <<self.domain_tag>>) \o inputs
         IN  [err |-> "Ok", val |-> permutation_output(state),
              self |-> [self EXCEPT !.state = state]]

\* PoseidonHasher::hash: the result and the hasher after the call
PoseidonHasher_hash(self, inputs) ==
    IF Len(inputs) # self.params.width - 1
    THEN [err |-> "InvalidNumberOfInputs", val |-> None, self |-> self]
    ELSE LET state == (self.state \o <<self.domain_tag>>) \o inputs
         IN  [err |-> "Ok", val |-> permutation_output(state),
              self |-> [self EXCEPT !.state = <<>>]]

modulus_bytes_len == (MODULUS_BIT_SIZE + (BYTE_BITS - 1)) \div BYTE_BITS

validate_bytes_length(input) ==
    IF input = <<>> THEN "EmptyInput"
    ELSE IF Len(input) > modulus_bytes_len THEN "InvalidInputLength"
    ELSE "Ok"

reverse(bytes) == [i \in 1..Len(bytes) |-> bytes[Len(bytes) + 1 - i]]

\* the integer a little-endian byte string stands for
RECURSIVE le_value(_)
le_value(bytes) ==
    IF bytes = <<>> THEN 0
    ELSE Head(bytes) + Pow(2, BYTE_BITS) * le_value(Tail(bytes))

from_le_bytes_mod_order(bytes) == Fr(le_value(bytes) % MODULUS)

into_bigint(element) == element[2]

bytes_to_prime_field_element(input) ==
    IF Len(input) # modulus_bytes_len THEN Err("InvalidInputLength", None)
    ELSE LET element == from_le_bytes_mod_order(input)
         IN  IF into_bigint(element) >= MODULUS
             THEN Err("InputLargerThanModulus", None)
             ELSE Ok(element)

\* one input of hash_bytes_be (reversed first) or hash_bytes_le
bytes_input(input, big_endian) ==
    IF validate_bytes_length(input) # "Ok"
    THEN Err(validate_bytes_length(input), None)
    ELSE bytes_to_prime_field_element(
             IF big_endian THEN reverse(input) ELSE input)

\* collect: the elements of the inputs, or the error of the first input
\* that has one
RECURSIVE collect_inputs(_, _)
collect_inputs(inputs, big_endian) ==
    IF inputs = <<>> THEN Ok(<<>>)
    ELSE LET first == bytes_input(Head(inputs), big_endian)
         IN  IF first.err # "Ok" THEN first
             ELSE LET rest == collect_inputs(Tail(inputs), big_endian)
                  IN  IF rest.err # "Ok" THEN rest
                      ELSE Ok(<<first.val>> \o rest.val)

hash_bytes(self, inputs, big_endian) ==
    LET elements == collect_inputs(inputs, big_endian)
    IN  IF elements.err # "Ok"
        THEN [err |-> elements.err, val |-> None, self |-> self]
        ELSE LET h == PoseidonHasher_hash(self, elements.val)
             IN  IF h.err # "Ok" THEN h
                 ELSE [h EXCEPT !.val =
                          <<(IF big_endian THEN "to_bytes_be" ELSE "to_bytes_le"),
                            h.val>>]

hash_bytes_be(self, inputs) == hash_bytes(self, inputs, TRUE)

hash_bytes_le(self, inputs) == hash_bytes(self, inputs, FALSE)

\* the field-element inputs tried on a hasher
RECURSIVE SeqsUpTo(_, _)
SeqsUpTo(S, n) ==
    IF n = 0 THEN {<<>>}
    ELSE LET shorter == SeqsUpTo(S, n - 1)
         IN  shorter \cup {Append(q, x) : q \in shorter, x \in S}

HashInputs ==
    SeqsUpTo({Fr(v) : v \in FieldValues}, MaxVariedInputs)
      \cup {[i \in 1..n |-> Fr(v)] : n \in 0..MAX_X5_LEN, v \in FieldValues}

\* the byte strings tried: every string of up to modulus_bytes_len + 1 bytes
ByteStrings == SeqsUpTo(0..(Pow(2, BYTE_BITS) - 1), modulus_bytes_len + 1)

FullByteStrings == {b \in ByteStrings : Len(b) = modulus_bytes_len}

\* one byte string, or a byte string of modulus length followed by itself,
\* by its reverse or by the empty string
BytesInputs ==
    {<<b>> : b \in ByteStrings}
      \cup UNION {{<<a, a>>, <<a, reverse(a)>>, <<a, <<>>>>} : a \in FullByteStrings}

HashIdle ==
    /\ now = 1 /\ coordinator = None /\ poll = None
    /\ registered = <<>> /\ participating = {}
    /\ poll_ids = <<>> /\ archive = <<>> /\ max_polls = 1
    /\ last = Result("none", "Ok")
    /\ tree = None /\ inserted = <<>> /\ treeOp = None
    /\ call = None

NoHashOp ==
    [op |-> "none", nr_inputs |-> 0, inputs |-> <<>>,
     result |-> [err |-> "Ok", val |-> None], before |-> None, calls |-> 0]

InitHash == HashIdle /\ hasher = None /\ hashOp = NoHashOp

\* the hasher at hand, once one was built
Hasher == Unwrap(Unwrap(hasher).val)

HasHasher == hasher # None /\ Unwrap(hasher).err = "Ok"

NewCircom ==
    /\ \E nr_inputs \in NrInputs :
         LET r == new_circom(nr_inputs)
         IN  /\ hasher' = Some([err |-> r.err,
                                val |-> IF r.err = "Ok" THEN Some(r.val) ELSE None])
             /\ hashOp' = [NoHashOp EXCEPT !.op = "new_circom",
                                           !.nr_inputs = nr_inputs,
                                           !.result = Unwrap(hasher')]
    /\ UNCHANGED <<pollVars, treeVars, call>>

\* a call on the hasher at hand: the hasher it leaves, and what is recorded
HashCall(op, inputs, r) ==
    /\ hasher' = Some(Ok(Some(r.self)))
    /\ hashOp' = [op |-> op, nr_inputs |-> Len(inputs), inputs |-> inputs,
                  result |-> [err |-> r.err, val |-> r.val],
                  before |-> Some(Hasher),
                  calls |-> Min(hashOp.calls + 1, MaxHashCalls)]

Hash ==
    /\ HasHasher
    /\ \E inputs \in HashInputs :
         HashCall("hash", inputs, PoseidonHasher_hash(Hasher, inputs))
    /\ UNCHANGED <<pollVars, treeVars, call>>

HashBytesBe ==
    /\ HasHasher
    /\ \E inputs \in BytesInputs :
         HashCall("hash_bytes_be", inputs, hash_bytes_be(Hasher, inputs))
    /\ UNCHANGED <<pollVars, treeVars, call>>

HashBytesLe ==
    /\ HasHasher
    /\ \E inputs \in BytesInputs :
         HashCall("hash_bytes_le", inputs, hash_bytes_le(Hasher, inputs))
    /\ UNCHANGED <<pollVars, treeVars, call>>

NextHash == NewCircom \/ Hash \/ HashBytesBe \/ HashBytesLe

SpecHash == InitHash /\ [][NextHash]_vars

\* C28: Poseidon::new_circom(nr_inputs) fails with InvalidWidthCircom
\* whenever nr_inputs + 1 lies outside [2, 13], nr_inputs = 0 included, and
\* succeeds for every nr_inputs in 1..12, with a hasher of width
\* nr_inputs + 1, domain tag 0 and an empty state.
C28_WidthOutsideTableRejected ==
    hashOp.op = "new_circom" =>
        LET n == hashOp.nr_inputs
        IN  /\ (n + 1 < 2 \/ n + 1 > 13) =>
                 /\ hashOp.result.err = "InvalidWidthCircom"
                 /\ ~HasHasher
            /\ (n \in 1..12) =>
                 /\ hashOp.result.err = "Ok"
                 /\ HasHasher
                 /\ Hasher.params.width = n + 1
                 /\ Hasher.domain_tag = Fr(0)
                 /\ Hasher.state = <<>>

\* new_circom(0) was rejected
C28_Witness ==
    /\ hashOp.op = "new_circom" /\ hashOp.nr_inputs = 0
    /\ hashOp.result.err = "InvalidWidthCircom"

\* the widest hasher was built
WidestHasherBuilt ==
    /\ hashOp.op = "new_circom" /\ hashOp.nr_inputs = MAX_X5_LEN - 1
    /\ hashOp.result.err = "Ok"

\* new_circom was rejected for the nr_inputs whose successor wraps to 0
WrappedWidthRejected ==
    /\ hashOp.op = "new_circom" /\ hashOp.nr_inputs = Pow(2, UsizeBits) - 1
    /\ hashOp.result.err = "InvalidWidthCircom"

\* the hasher new_circom builds for the width of the hasher at hand
FreshHasher(self) == new_circom(self.params.width - 1).val

\* C29: hash(inputs) on a hasher of width w returns InvalidNumberOfInputs
\* if and only if the number of inputs is not w - 1, and then leaves the
\* hasher as it was; after every call the state of the hasher is empty, and
\* a successful call returns what a fresh hasher returns for the inputs.
C29_HashLeavesSpongeEmpty ==
    /\ HasHasher => Hasher.state = <<>>
    /\ hashOp.op = "hash" =>
         LET before == Unwrap(hashOp.before)
         IN  /\ hashOp.result.err \in {"Ok", "InvalidNumberOfInputs"}
             /\ hashOp.result.err = "InvalidNumberOfInputs"
                    <=> Len(hashOp.inputs) # before.params.width - 1
             /\ hashOp.result.err = "InvalidNumberOfInputs" => Hasher = before
             /\ hashOp.result.err = "Ok" =>
                    hashOp.result.val =
                        PoseidonHasher_hash(FreshHasher(before), hashOp.inputs).val

\* a hasher that was already used hashed two different inputs
C29_Witness ==
    /\ hashOp.op = "hash" /\ hashOp.result.err = "Ok"
    /\ hashOp.calls = MaxHashCalls
    /\ hashOp.inputs = <<Fr(1), Fr(2)>>

\* a hasher that was already used turned a call away for its number of
\* inputs
WrongNumberOfInputsRejected ==
    /\ hashOp.op = "hash" /\ hashOp.result.err = "InvalidNumberOfInputs"
    /\ hashOp.calls = MaxHashCalls
    /\ Len(hashOp.inputs) = Hasher.params.width

HashBytesOp == hashOp.op \in {"hash_bytes_be", "hash_bytes_le"}

\* the integer the input stands for, in the byte order of the call
ByteValue(input) ==
    le_value(IF hashOp.op = "hash_bytes_be" THEN reverse(input) ELSE input)

\* every input has modulus length and one of them stands for an integer at
\* or above the modulus
InputAtOrAboveModulus ==
    /\ HashBytesOp
    /\ \A i \in 1..Len(hashOp.inputs) : Len(hashOp.inputs[i]) = modulus_bytes_len
    /\ \E i \in 1..Len(hashOp.inputs) : ByteValue(hashOp.inputs[i]) >= MODULUS

\* C30: hash_bytes_be and hash_bytes_le return InputLargerThanModulus for
\* every input of modulus length whose value is at or above the modulus;
\* such an input is never reduced modulo the modulus and hashed.
C30_InputAtOrAboveModulusRejected ==
    InputAtOrAboveModulus => hashOp.result.err = "InputLargerThanModulus"

\* InputLargerThanModulus is never returned
InputLargerThanModulusNeverReturned ==
    hashOp.result.err # "InputLargerThanModulus"

\* an input at or above the modulus was hashed, to the digest of the input
\* that stands for its remainder
InputReducedAndHashed ==
    /\ hashOp.op = "hash_bytes_le"
    /\ hashOp.inputs = <<<<1, 1, 1>>>>
    /\ hashOp.result.err = "Ok"
    /\ hashOp.result.val =
           hash_bytes_le(Unwrap(hashOp.before), <<<<0, 1, 0>>>>).val

----------------------------------------------------------------------------
(* The insert that fills the tree.                                         *)

\* the number of leaf positions taken: the sentinel, if any, and the leaves
HeldCount == Len(Held(treeOp.sentinel, inserted))

\* C31: a successful insert sets root, and empties hashes, exactly when it
\* brings the number of leaves held by the tree, the sentinel included, to
\* arity^full_depth; root is None after every earlier insert.  The root it
\* sets is the root of the full tree over the held leaves.
C31_RootSetExactlyWhenFull ==
    InsertSucceeded =>
        /\ IsSome(tree.root) <=> HeldCount = Pow(tree.arity, tree.full_depth)
        /\ IsSome(tree.root) =>
              /\ tree.hashes = <<>>
              /\ tree.root = Some(ReferenceRoot(tree.arity, tree.full_depth,
                                      Held(treeOp.sentinel, inserted)))
        /\ HeldCount < Pow(tree.arity, tree.full_depth) => tree.root = None

\* the seventh leaf beside the sentinel filled the binary tree of depth 3
C31_Witness ==
    /\ InsertSucceeded
    /\ tree.arity = ARITY_REGISTRATIONS /\ treeOp.sentinel
    /\ tree.full_depth = 3
    /\ Len(inserted) = 7
    /\ treeOp.before.root = None
    /\ IsSome(tree.root) /\ tree.hashes = <<>>

\* the fifth leaf filled the arity-5 tree of depth 1
QuinaryTreeFilledByInsert ==
    /\ InsertSucceeded
    /\ tree.arity = ARITY_INTERACTIONS /\ ~treeOp.sentinel
    /\ tree.full_depth = 1
    /\ Len(inserted) = 5
    /\ IsSome(tree.root) /\ tree.hashes = <<>>

\* the sixth leaf beside the sentinel left the binary tree of depth 3 open
LastLeafBeforeFull ==
    /\ InsertSucceeded
    /\ tree.arity = ARITY_REGISTRATIONS /\ treeOp.sentinel
    /\ tree.full_depth = 3
    /\ Len(inserted) = 6
    /\ tree.root = None

----------------------------------------------------------------------------
(* The merge that stops at the first single entry.                         *)

\* merge(to_depth = false) was called on a tree that was still open and held
\* at least one entry
OpenTreeMergedToSubtree ==
    /\ treeOp.op = "merge" /\ ~treeOp.to_depth
    /\ treeOp.before.root = None
    /\ HeldCount >= 1

SingleLeafMergedToItself ==
    /\ OpenTreeMergedToSubtree /\ treeOp.err = "Ok"
    /\ tree.arity = ARITY_INTERACTIONS /\ ~treeOp.sentinel
    /\ tree.full_depth = 1
    /\ Len(inserted) = 1
    /\ tree.root = Some(inserted[1])

----------------------------------------------------------------------------
(* The width of the batch size.                                            *)

\* get_proof_public_inputs has been called on the poll
InputsBuilt == poll # None /\ call # None

\* C33 as stated: the batch size the process signals are built with is the
\* integer 5^process_subtree_depth, for every process_subtree_depth from 0
\* up to the full depth of the interaction tree.
C33_BatchSizeIsTruePower ==
    InputsBuilt =>
        /\ Unwrap(poll).config.process_subtree_depth
               <= Unwrap(poll).state.interactions.full_depth
        /\ message_batch_size(Unwrap(poll)) = BatchSize

\* the power is the integer power as long as it fits in eight bits: for
\* process_subtree_depth up to 3
BatchSizeTrueWhileInEightBits ==
    (InputsBuilt /\ Unwrap(poll).config.process_subtree_depth <= 3) =>
        message_batch_size(Unwrap(poll)) = BatchSize

\* the signals of a poll with process_subtree_depth = 4 were built with the
\* batch size 5^4 mod 2^8 = 113
BatchSizeWrapped ==
    /\ InputsBuilt
    /\ Unwrap(poll).config.process_subtree_depth = 4
    /\ Unwrap(poll).state.interactions.full_depth = 4
    /\ BatchSize = 625
    /\ message_batch_size(Unwrap(poll)) = 113
    /\ Len(Unwrap(call).result.inputs) = 9

----------------------------------------------------------------------------
(* What each poll operation writes.                                        *)

\* the parts of a poll none of the three operations writes
OutsideState(pl) ==
    [ index |-> Unwrap(pl).index,
      coordinator |-> Unwrap(pl).coordinator,
      created_at |-> Unwrap(pl).created_at,
      config |-> Unwrap(pl).config,
      commitment |-> Unwrap(pl).state.commitment,
      outcome |-> Unwrap(pl).state.outcome ]

NullifiedWithTreesUntouched ==
    /\ poll # None
    /\ last.op = "nullify_poll" /\ last.err = "Ok"
    /\ Unwrap(poll).state.tombstone
    /\ Unwrap(poll).state.registrations.count = 0
    /\ Unwrap(poll).state.interactions.count = 0

----------------------------------------------------------------------------
(* The depth field after the registration merge.                           *)

\* C35 as stated: after merge_registrations on a poll with k registrations,
\* registrations.depth is the depth of the subtree whose digest is stored in
\* registrations.root: the least d with 2^d >= k + 1, for every k >= 0.
C35_DepthIsMergedSubtreeDepth ==
    RegistrationsJustMerged =>
        LET t == Unwrap(poll).state.registrations
            d == CeilLog(ARITY_REGISTRATIONS, Len(registered) + 1)
        IN  /\ t.root = Some(ReferenceRoot(ARITY_REGISTRATIONS, d,
                                           RegistrationLeaves))
            /\ t.depth = d

\* what the field holds: the depth of the largest subtree the inserts
\* completed, the greatest d with 2^d <= k + 1; the merge does not write it
DepthIsLargestCompletedSubtree ==
    RegistrationsJustMerged =>
        LET t == Unwrap(poll).state.registrations
        IN  /\ Pow(ARITY_REGISTRATIONS, t.depth) <= Len(registered) + 1
            /\ Len(registered) + 1 < Pow(ARITY_REGISTRATIONS, t.depth + 1)

\* two registrations were merged: the root is the root of the depth-2
\* subtree over the sentinel and the two leaves, and depth is 1
DepthBelowMergedSubtree ==
    /\ RegistrationsJustMerged
    /\ Len(registered) = 2
    /\ Unwrap(poll).state.registrations.root =
           Some(ReferenceRoot(ARITY_REGISTRATIONS, 2, RegistrationLeaves))
    /\ Unwrap(poll).state.registrations.depth = 1

----------------------------------------------------------------------------
(* The three phases of a poll.                                             *)

\* the lifecycle predicates that are true of the poll at the current block
PhasesNow ==
    { ph \in {"registration", "voting", "over"} :
        \/ ph = "registration" /\ is_registration_period(Unwrap(poll), now)
        \/ ph = "voting" /\ is_voting_period(Unwrap(poll), now)
        \/ ph = "over" /\ is_over(Unwrap(poll), now) }

\* C36 as stated: at every block from created_at on, exactly one of
\* is_registration_period, is_voting_period and is_over is true of the poll.
C36_PhasesPartitionTime ==
    (poll # None /\ now >= Unwrap(poll).created_at) =>
        Cardinality(PhasesNow) = 1

\* no block is in two phases, and the only block in none is the block
\* created_at + signup_period + voting_period: is_voting_period ends before
\* it and is_over begins after it
OnePhaseExceptAtVotingEnd ==
    (poll # None /\ now >= Unwrap(poll).created_at) =>
        /\ Cardinality(PhasesNow) <= 1
        /\ PhasesNow = {} <=> now = get_voting_period_end(Unwrap(poll))

\* an interaction was accepted at a block that is in none of the phases
InteractionAcceptedInNoPhase ==
    /\ poll # None
    /\ PhasesNow = {}
    /\ now = get_voting_period_end(Unwrap(poll))
    /\ last.op = "interact_with_poll" /\ last.err = "Ok"

----------------------------------------------------------------------------
(* Both roots and the voting window.                                       *)

\* C37 as stated: in every reachable state is_merged, both roots defined,
\* implies that the voting window of the poll has closed (is_over).
C37_MergedOnlyWhenOver ==
    (poll # None /\ is_merged(Unwrap(poll))) => is_over(Unwrap(poll), now)

\* both roots were set by inserts alone while the poll still takes
\* interactions: the registration that filled the registration tree and the
\* interaction that filled the interaction tree; no merge has seeded the
\* process commitment or recorded the expected counts
MergedByInsertsAlone ==
    /\ poll # None
    /\ is_merged(Unwrap(poll))
    /\ ~is_over(Unwrap(poll), now)
    /\ last.op = "interact_with_poll" /\ last.err = "Ok"
    /\ Unwrap(poll).state.registrations.count
           = Unwrap(poll).config.max_registrations
    /\ Unwrap(poll).state.interactions.count
           = Unwrap(poll).config.max_interactions
    /\ Unwrap(poll).state.commitment.process = <<0, ZeroBytes>>
    /\ Unwrap(poll).state.commitment.expected_process = 0

\* both roots were set by the two merges before the poll was over
MergedByMergesBeforeOver ==
    /\ poll # None
    /\ is_merged(Unwrap(poll))
    /\ ~is_over(Unwrap(poll), now)
    /\ last.op = "merge_interactions" /\ last.err = "Ok"
    /\ Unwrap(poll).state.commitment.expected_process >= 1

----------------------------------------------------------------------------
(* The first merge of a tree.                                              *)

\* the registration window has closed and no registration merge has seeded
\* the process commitment
AwaitsRegistrationMerge ==
    /\ poll # None
    /\ ~is_registration_period(Unwrap(poll), now)
    /\ Unwrap(poll).state.commitment.process = <<0, ZeroBytes>>

\* the poll is over with at least one interaction and no interaction merge
\* has recorded the expected counts
AwaitsInteractionMerge ==
    /\ poll # None
    /\ is_over(Unwrap(poll), now)
    /\ Unwrap(poll).state.interactions.count >= 1
    /\ Unwrap(poll).state.commitment.expected_process = 0

\* merge_registrations on the poll returns Ok with the root defined and the
\* process commitment seeded
RegistrationMergeSucceeds ==
    LET r == merge_registrations(Unwrap(poll))
    IN  /\ r.err = "Ok"
        /\ IsSome(r.val.state.registrations.root)
        /\ r.val.state.commitment.process # <<0, ZeroBytes>>
        /\ r.val.state.commitment.process[1] = 0

\* merge_interactions on the poll returns Ok with the root defined
InteractionMergeSucceeds ==
    LET r == merge_interactions(Unwrap(poll))
    IN  /\ r.err = "Ok"
        /\ IsSome(r.val.state.interactions.root)

\* C38 as stated: for every number of leaves the caps admit, a filled tree
\* included, the first merge_registrations (merge_interactions) after the
\* window closes returns Ok, leaves the root defined and, for
\* registrations, seeds the process commitment.
C38_FirstMergeSucceeds ==
    /\ AwaitsRegistrationMerge => RegistrationMergeSucceeds
    /\ AwaitsInteractionMerge => InteractionMergeSucceeds

\* the first merge succeeds on every tree that is not filled to its cap
FirstMergeSucceedsBelowCap ==
    /\ ( /\ AwaitsRegistrationMerge
         /\ ~registration_limit_reached(Unwrap(poll)) )
       => RegistrationMergeSucceeds
    /\ ( /\ AwaitsInteractionMerge
         /\ ~interaction_limit_reached(Unwrap(poll)) )
       => InteractionMergeSucceeds

\* on a tree filled to its cap the merge fails with TreeAlreadyMerged
MergeOfFilledTreeFails ==
    /\ ( /\ AwaitsRegistrationMerge
         /\ registration_limit_reached(Unwrap(poll)) )
       => merge_registrations(Unwrap(poll)).err = "TreeAlreadyMerged"
    /\ ( /\ AwaitsInteractionMerge
         /\ interaction_limit_reached(Unwrap(poll)) )
       => merge_interactions(Unwrap(poll)).err = "TreeAlreadyMerged"

\* merge_poll_state was turned away on a poll with as many interactions as
\* the cap admits
FilledInteractionsMergeRejected ==
    /\ AwaitsInteractionMerge
    /\ interaction_limit_reached(Unwrap(poll))
    /\ last.op = "merge_interactions" /\ last.err = "PollMergeFailed"

\* the interactions of a poll with as many registrations as the cap admits
\* were merged, and the process commitment was never seeded
FilledRegistrationsNeverSeeded ==
    /\ poll # None
    /\ registration_limit_reached(Unwrap(poll))
    /\ last.op = "merge_interactions" /\ last.err = "Ok"
    /\ is_merged(Unwrap(poll))
    /\ Unwrap(poll).state.commitment.process = <<0, ZeroBytes>>

----------------------------------------------------------------------------
(* The merge of an empty tree.                                             *)

\* the interaction tree of the poll has neither entries nor a root
InteractionsEmpty(pl) ==
    /\ Unwrap(pl).state.interactions.hashes = <<>>
    /\ Unwrap(pl).state.interactions.root = None
    /\ Unwrap(pl).state.interactions.count = 0

\* merge, in either mode, returns the empty tree as it is, and so does
\* merge_interactions with the poll
EmptyMergeChangesNothing ==
    (poll # None /\ InteractionsEmpty(poll)) =>
        /\ \A to_depth \in BOOLEAN :
              merge(Unwrap(poll).state.interactions, to_depth)
                  = Ok(Unwrap(poll).state.interactions)
        /\ merge_interactions(Unwrap(poll)) = Ok(Unwrap(poll))
        /\ ~is_merged(merge_interactions(Unwrap(poll)).val)

\* this step is a merge_poll_state call that reached merge_interactions on
\* a poll without interactions
EmptyInteractionMergeStep ==
    /\ MergeStep
    /\ last'.op = "merge_interactions"
    /\ InteractionsEmpty(poll)

EmptyTreeMergeReturnsTree ==
    ( /\ treeOp.op = "merge"
      /\ treeOp.before.hashes = <<>> /\ treeOp.before.root = None )
    => /\ treeOp.err = "Ok"
       /\ tree = treeOp.before
       /\ tree.root = None /\ tree.hashes = <<>> /\ tree.count = 0

\* an empty arity-2 tree was merged without stopping at a subtree
EmptyBinaryTreeMerged ==
    /\ treeOp.op = "merge" /\ ~treeOp.to_depth /\ treeOp.err = "Ok"
    /\ tree.arity = ARITY_REGISTRATIONS /\ ~treeOp.sentinel
    /\ tree.full_depth = 2
    /\ tree.hashes = <<>> /\ tree.root = None /\ tree.count = 0

----------------------------------------------------------------------------
(* The depths a tree reaches.                                              *)

\* every entry of hashes and the depth field are within full_depth
DepthsWithinFullDepth ==
    /\ \A i \in 1..Len(tree.hashes) : tree.hashes[i][1] <= tree.full_depth
    /\ tree.depth <= tree.full_depth

\* C40 as stated: in every reachable tree state every entry of hashes has
\* depth <= full_depth and the depth field is <= full_depth, for every
\* full_depth >= 0, the tree created with the sentinel and full_depth = 0
\* included; the tree holds no more than arity^full_depth leaves.
C40_TreeStaysWithinFullDepth ==
    /\ DepthsWithinFullDepth
    /\ HeldCount <= Pow(tree.arity, tree.full_depth)

\* the depths and the number of leaves are within the configured depth in
\* every tree but the one created with the sentinel and full_depth = 0
WithinFullDepthUnlessSentinelAtZero ==
    ~(treeOp.sentinel /\ tree.full_depth = 0) =>
        C40_TreeStaysWithinFullDepth

\* the tree created with the sentinel and full_depth = 0 took two leaves:
\* its entries have depths 1 and 0, its depth field is 1 and root is not set
SentinelTreeOutgrowsDepthZero ==
    /\ InsertSucceeded
    /\ treeOp.sentinel /\ tree.full_depth = 0
    /\ Len(inserted) = 2 /\ tree.count = 2
    /\ Depths(tree) = <<1, 0>>
    /\ tree.depth = 1
    /\ tree.root = None

====
